---- MODULE Spec2Model ----
(***************************************************************************)
(* Promise-pipelined RPC over one WebSocket connection.                    *)
(*                                                                         *)
(* Two programs are modelled, each against an arbitrary peer:              *)
(*   - the worker (src/worker.js): the "message" listener of one accepted  *)
(*     connection, its questionsInFlight table, maybeResolveParam,         *)
(*     finalizeQuestion and the two example methods;                       *)
(*   - the issuer (the page script): callsInFlight, nextQuestionId,        *)
(*     callRPC, callPipelined, awaitResult and ws.onmessage.               *)
(*                                                                         *)
(* A step of the model is one JavaScript macrotask (a message event or a   *)
(* timer callback) together with the whole chain of promise microtasks it   *)
(* triggers, which the event loop runs before any other event.             *)
(***************************************************************************)
EXTENDS Integers, Sequences, FiniteSets, TLC

\* Bounds of the model.
MaxFrames == 3          \* inbound frames delivered to the worker
MaxId == 3              \* question ids a peer may put in a frame: 1..MaxId
MaxRefs == 2            \* reference parameters in the delivered frames, in total
MaxCalls == 2           \* callRPC and callPipelined invocations on the page
MaxAwaits == 2          \* awaitResult invocations on the page
MaxAnswers == 2         \* frames the page receives

\* entry.result before finalizeQuestion (JavaScript null).
Null == "<null>"

---------------------------------------------------------------------------
(* Wire values.  A parameter is a literal string or a reference            *)
(* {resultOf: id}; literals are wrapped so that both are records.           *)

Lit(s) == [lit |-> s]
Ref(id) == [resultOf |-> id]

\* worker.js 120-125: the shape test of maybeResolveParam.
IsReference(param) == "resultOf" \in DOMAIN param

CallFrame(id, m, ps) ==
    [type |-> "call", questionId |-> id, method |-> m, params |-> ps]

\* A frame JSON.parse rejects.
Undecodable == [raw |-> "{not json"]

\* A well-formed message whose type is not "call".
OtherFrame == [type |-> "ping"]

---------------------------------------------------------------------------
(* The worker.                                                             *)

VARIABLES
    worker,     \* the state of one accepted connection (see InitWorker)
    twin,       \* a second connection, fed the same traffic less one call
    issuer      \* the state of the page script (see InitIssuer)

vars == <<worker, twin, issuer>>

(* worker.questionsInFlight : questionId -> entry, the Map of line 13.     *)
(*     entry.done, entry.result, entry.promise (TRUE once created);        *)
(*     entry.waiters: the reactions registered on entry.promise by         *)
(*     `await q.promise`, as <<task, parameter position>>, oldest first.   *)
(* worker.tasks : one record per delivered frame, in arrival order: the    *)
(*     invocation of the async listener for that frame.                    *)
(*     pc: "invalid" | "ignored" | "awaiting" | "running" | "returned"     *)
(*         | "failed";  slots: the state of each maybeResolveParam call.    *)
(* worker.out : the frames passed to server.send, oldest first.            *)
(* worker.outBy : for each frame of out, the task that sent it.            *)
(* worker.invoked : the tasks whose method was called, in call order.      *)
(* worker.closed : the "close" event of the socket was dispatched.          *)
InitWorker ==
    [questionsInFlight |-> <<>>,
     tasks |-> <<>>,
     out |-> <<>>,
     outBy |-> <<>>,
     invoked |-> <<>>,
     closed |-> FALSE]

\* worker.js 95-97: the "close" listener logs the event and does nothing else.
onclose(W) == [W EXCEPT !.closed = TRUE]

\* The tasks that are calls.
Calls(W) ==
    {k \in DOMAIN W.tasks : W.tasks[k].pc \notin {"invalid", "ignored", "unsent"}}

NewEntry == [done |-> FALSE, result |-> Null, promise |-> FALSE, waiters |-> <<>>]

\* Registration without the has() test of line 37: the entry is set anew.
RegisterAnew(q, id) == (id :> NewEntry) @@ q

\* worker.js 37-45
Register(q, id) == IF id \in DOMAIN q THEN q ELSE q @@ (id :> NewEntry)

\* via: the return statement of maybeResolveParam that produced the value:
\* "literal" (line 150), "done" (line 135) or "promise" (line 145).
Resolved(v, via) == [st |-> "resolved", val |-> v, via |-> via]
Rejected(e) == [st |-> "rejected", err |-> e]
Pending == [st |-> "pending"]

UnknownCall(refId) == "Reference to unknown call #" \o ToString(refId)

\* maybeResolveParam without the q.done test of line 133: a reference to a
\* registered question always waits for its promise.
maybeResolveParamAlwaysWaits(q, param, k, i) ==
    IF IsReference(param)
    THEN LET refId == param.resultOf IN
         IF refId \notin DOMAIN q
         THEN [q |-> q, slot |-> Rejected(UnknownCall(refId))]
         ELSE [q |-> [q EXCEPT ![refId] =
                        [@ EXCEPT !.promise = TRUE,
                                  !.waiters = Append(@, <<k, i>>)]],
               slot |-> Pending]
    ELSE [q |-> q, slot |-> Resolved(param.lit, "literal")]

\* maybeResolveParam with a pending question treated as a missing one.
maybeResolveParamRejectsPending(q, param, k, i) ==
    IF IsReference(param)
    THEN LET refId == param.resultOf IN
         IF refId \notin DOMAIN q \/ ~q[refId].done
         THEN [q |-> q, slot |-> Rejected(UnknownCall(refId))]
         ELSE [q |-> q, slot |-> Resolved(q[refId].result, "done")]
    ELSE [q |-> q, slot |-> Resolved(param.lit, "literal")]

\* maybeResolveParam without the wait of lines 136-146: a reference to a
\* pending question yields whatever the entry holds.
maybeResolveParamNeverWaits(q, param, k, i) ==
    IF IsReference(param)
    THEN LET refId == param.resultOf IN
         IF refId \notin DOMAIN q
         THEN [q |-> q, slot |-> Rejected(UnknownCall(refId))]
         ELSE [q |-> q, slot |-> Resolved(q[refId].result, "done")]
    ELSE [q |-> q, slot |-> Resolved(param.lit, "literal")]

(* worker.js 118-151: the synchronous part of maybeResolveParam for the    *)
(* parameter at position i of task k: the new table and the state of the   *)
(* promise the call returns.                                               *)
maybeResolveParam(q, param, k, i) ==
    IF IsReference(param)
    THEN LET refId == param.resultOf IN
         IF refId \notin DOMAIN q
         THEN [q |-> q, slot |-> Rejected(UnknownCall(refId))]
         ELSE IF q[refId].done
         THEN [q |-> q, slot |-> Resolved(q[refId].result, "done")]
         ELSE [q |-> [q EXCEPT ![refId] =
                        [@ EXCEPT !.promise = TRUE,
                                  !.waiters = Append(@, <<k, i>>)]],
               slot |-> Pending]
    ELSE [q |-> q, slot |-> Resolved(param.lit, "literal")]

\* worker.js 50: params.map(p => maybeResolveParam(p)), left to right.
RECURSIVE ResolveParams(_, _, _, _)
ResolveParams(q, params, k, slots) ==
    IF Len(slots) = Len(params)
    THEN [q |-> q, slots |-> slots]
    ELSE LET i == Len(slots) + 1
             r == maybeResolveParam(q, params[i], k, i)
         IN ResolveParams(r.q, params, k, Append(slots, r.slot))

\* worker.js 154-163
makeGreeting(name) == "Hello, " \o name \o "!"
appendSuffix(text, suffix) == text \o suffix

KnownMethods == {"makeGreeting", "appendSuffix"}

RunMethod(method, args) ==
    IF method = "makeGreeting" THEN makeGreeting(args[1])
    ELSE appendSuffix(args[1], args[2])

ResolvedArgs(slots) == [i \in DOMAIN slots |-> slots[i].val]

Exception(id, e) == [type |-> "exception", answerId |-> id, error |-> e]
Return(id, v) == [type |-> "return", answerId |-> id, result |-> v]

Send(W, k, msg) ==
    [W EXCEPT !.out = Append(@, msg), !.outBy = Append(@, k)]

UnknownMethod(method) == "Unknown method \"" \o method \o "\""

\* Dispatch that sets the error of an unknown method and never sends it.
DispatchSilent(W, k) ==
    LET t == W.tasks[k] IN
    IF t.frame.method \in KnownMethods
    THEN [W EXCEPT !.tasks[k].pc = "running", !.invoked = Append(@, k)]
    ELSE [W EXCEPT !.tasks[k].pc = "failed"]

\* Dispatch that calls a method only when no other call is in its method: a
\* call that finds one in progress is left where it is.
DispatchWhenIdle(W, k) ==
    LET t == W.tasks[k] IN
    IF t.frame.method \in KnownMethods
    THEN IF \E j \in DOMAIN W.tasks : W.tasks[j].pc = "running"
         THEN W
         ELSE [W EXCEPT !.tasks[k].pc = "running", !.invoked = Append(@, k)]
    ELSE Send([W EXCEPT !.tasks[k].pc = "failed"], k,
              Exception(t.frame.questionId, UnknownMethod(t.frame.method)))

\* Dispatch that marks the question of an unknown method done, with its error
\* as the result.
DispatchFailureFinalizes(W, k) ==
    LET t == W.tasks[k] IN
    IF t.frame.method \in KnownMethods
    THEN [W EXCEPT !.tasks[k].pc = "running", !.invoked = Append(@, k)]
    ELSE Send([W EXCEPT !.tasks[k].pc = "failed",
                        !.questionsInFlight[t.frame.questionId].done = TRUE,
                        !.questionsInFlight[t.frame.questionId].result =
                            UnknownMethod(t.frame.method)],
              k, Exception(t.frame.questionId, UnknownMethod(t.frame.method)))

(* worker.js 61-82: task k has all its arguments.  A known method is       *)
(* called and suspends on its timer; an unknown one is answered at once.   *)
Dispatch(W, k) ==
    LET t == W.tasks[k] IN
    IF t.frame.method \in KnownMethods
    THEN [W EXCEPT !.tasks[k].pc = "running", !.invoked = Append(@, k)]
    ELSE Send([W EXCEPT !.tasks[k].pc = "failed"], k,
              Exception(t.frame.questionId, UnknownMethod(t.frame.method)))

AllResolved(slots) == \A i \in DOMAIN slots : slots[i].st = "resolved"

FirstRejected(slots) ==
    CHOOSE i \in DOMAIN slots :
        /\ slots[i].st = "rejected"
        /\ \A j \in DOMAIN slots : slots[j].st = "rejected" => i <= j

\* OnCall whose catch block also re-initialises every question of the table.
OnCallFailureResetsTable(W, f) ==
    LET k == Len(W.tasks) + 1
        q1 == Register(W.questionsInFlight, f.questionId)
        r == ResolveParams(q1, f.params, k, <<>>)
        W1 == [W EXCEPT !.questionsInFlight = r.q,
                        !.tasks = Append(@, [frame |-> f, pc |-> "awaiting",
                                             slots |-> r.slots])]
    IN IF \E i \in DOMAIN r.slots : r.slots[i].st = "rejected"
       THEN Send([W1 EXCEPT !.tasks[k].pc = "failed",
                            !.questionsInFlight = [id \in DOMAIN r.q |-> NewEntry]], k,
                 Exception(f.questionId, r.slots[FirstRejected(r.slots)].err))
       ELSE IF AllResolved(r.slots) THEN Dispatch(W1, k)
       ELSE W1

\* OnCall without the catch block of lines 51-59: a call with a rejected
\* parameter is left waiting for the others.
OnCallIgnoresRejection(W, f) ==
    LET k == Len(W.tasks) + 1
        q1 == Register(W.questionsInFlight, f.questionId)
        r == ResolveParams(q1, f.params, k, <<>>)
        W1 == [W EXCEPT !.questionsInFlight = r.q,
                        !.tasks = Append(@, [frame |-> f, pc |-> "awaiting",
                                             slots |-> r.slots])]
    IN IF AllResolved(r.slots) THEN Dispatch(W1, k) ELSE W1

\* OnCall with the registration of lines 37-45 moved after the resolution of
\* the parameters.
OnCallRegistersAfter(W, f) ==
    LET k == Len(W.tasks) + 1
        r == ResolveParams(W.questionsInFlight, f.params, k, <<>>)
        W1 == [W EXCEPT !.questionsInFlight = Register(r.q, f.questionId),
                        !.tasks = Append(@, [frame |-> f, pc |-> "awaiting",
                                             slots |-> r.slots])]
    IN IF \E i \in DOMAIN r.slots : r.slots[i].st = "rejected"
       THEN Send([W1 EXCEPT !.tasks[k].pc = "failed"], k,
                 Exception(f.questionId, r.slots[FirstRejected(r.slots)].err))
       ELSE IF AllResolved(r.slots) THEN Dispatch(W1, k)
       ELSE W1

(* worker.js 31-59: a call frame arrives.                                  *)
OnCall(W, f) ==
    LET k == Len(W.tasks) + 1
        q1 == Register(W.questionsInFlight, f.questionId)
        r == ResolveParams(q1, f.params, k, <<>>)
        W1 == [W EXCEPT !.questionsInFlight = r.q,
                        !.tasks = Append(@, [frame |-> f, pc |-> "awaiting",
                                             slots |-> r.slots])]
    IN IF \E i \in DOMAIN r.slots : r.slots[i].st = "rejected"
       THEN Send([W1 EXCEPT !.tasks[k].pc = "failed"], k,
                 Exception(f.questionId, r.slots[FirstRejected(r.slots)].err))
       ELSE IF AllResolved(r.slots) THEN Dispatch(W1, k)
       ELSE W1

\* The listener with a catch block for JSON.parse that only logs.
OnMessageSilent(W, f) ==
    IF "type" \notin DOMAIN f
    THEN [W EXCEPT !.tasks = Append(@, [frame |-> f, pc |-> "invalid",
                                        slots |-> <<>>])]
    ELSE IF f.type = "call" THEN OnCall(W, f)
    ELSE [W EXCEPT !.tasks = Append(@, [frame |-> f, pc |-> "ignored",
                                        slots |-> <<>>])]

(* worker.js 15-93: the message listener.                                  *)
OnMessage(W, f) ==
    IF "type" \notin DOMAIN f
    THEN Send([W EXCEPT !.tasks = Append(@, [frame |-> f, pc |-> "invalid",
                                             slots |-> <<>>])],
              Len(W.tasks) + 1, Exception(0, "Invalid JSON"))
    ELSE IF f.type = "call" THEN OnCall(W, f)
    ELSE [W EXCEPT !.tasks = Append(@, [frame |-> f, pc |-> "ignored",
                                        slots |-> <<>>])]

\* The continuations run newest first.
RECURSIVE WakeNewestFirst(_, _, _)
WakeNewestFirst(W, waiters, v) ==
    IF waiters = <<>> THEN W
    ELSE LET n == Len(waiters)
             k == waiters[n][1]
             i == waiters[n][2]
             W1 == [W EXCEPT !.tasks[k].slots[i] = Resolved(v, "promise")]
             W2 == IF W1.tasks[k].pc = "awaiting" /\ AllResolved(W1.tasks[k].slots)
                   THEN Dispatch(W1, k)
                   ELSE W1
         IN WakeNewestFirst(W2, SubSeq(waiters, 1, n - 1), v)

(* The continuations of `await q.promise` (worker.js 145), run in the      *)
(* order the waiters registered: each fills its slot, and a task whose     *)
(* Promise.all thereby completes goes on to its method.                    *)
RECURSIVE Wake(_, _, _)
Wake(W, waiters, v) ==
    IF waiters = <<>> THEN W
    ELSE LET k == Head(waiters)[1]
             i == Head(waiters)[2]
             W1 == [W EXCEPT !.tasks[k].slots[i] = Resolved(v, "promise")]
             W2 == IF W1.tasks[k].pc = "awaiting" /\ AllResolved(W1.tasks[k].slots)
                   THEN Dispatch(W1, k)
                   ELSE W1
         IN Wake(W2, Tail(waiters), v)

(* worker.js 109-116 *)
finalizeQuestion(q, qId, result) ==
    [q EXCEPT ![qId] = [@ EXCEPT !.done = TRUE, !.result = result,
                                 !.waiters = <<>>]]

\* OnTimer with questionId held in one variable shared by all invocations of
\* the listener: the reply carries the id of the call that arrived last.
OnTimerSharedId(W, k) ==
    LET t == W.tasks[k]
        last == CHOOSE j \in Calls(W) : \A i \in Calls(W) : i <= j
        qId == W.tasks[last].frame.questionId
        result == RunMethod(t.frame.method, ResolvedArgs(t.slots))
        woken == W.questionsInFlight[qId].waiters
        W1 == [W EXCEPT !.questionsInFlight = finalizeQuestion(@, qId, result),
                        !.tasks[k].pc = "returned"]
    IN Wake(Send(W1, k, Return(qId, result)), woken, result)

(* worker.js 65-67, 83-91: the timer of task k's method fires; the method  *)
(* returns, the question is finalized, the Return is sent, and then the    *)
(* waiters of the question run.                                            *)
OnTimer(W, k) ==
    LET t == W.tasks[k]
        qId == t.frame.questionId
        result == RunMethod(t.frame.method, ResolvedArgs(t.slots))
        woken == W.questionsInFlight[qId].waiters
        W1 == [W EXCEPT !.questionsInFlight = finalizeQuestion(@, qId, result),
                        !.tasks[k].pc = "returned"]
    IN Wake(Send(W1, k, Return(qId, result)), woken, result)

---------------------------------------------------------------------------
(* The issuer: the script of the page.                                     *)
(*                                                                         *)
(* issuer.callsInFlight : questionId -> entry, the Map of line 27.         *)
(*     entry.done, entry.result, entry.promise (TRUE once awaitResult      *)
(*     created it); entry.resolve and entry.reject: "undefined", "rpc"     *)
(*     (the functions of the promise callRPC returned) or "await" (the     *)
(*     functions awaitResult stored, which settle entry.promise).          *)
(* issuer.nextQuestionId : the counter of line 28.                         *)
(* issuer.ws : "null" before initWebSocket, then the socket's readyState.  *)
(* issuer.sent : the frames passed to ws.send, oldest first.               *)
(* issuer.received : the frames ws.onmessage was given, oldest first.      *)
(* issuer.rpcs : the promises callRPC returned, in call order: the id the  *)
(*     call was sent with (0: not sent), state "pending" | "fulfilled" |   *)
(*     "rejected", the value or error text, and how often one of its       *)
(*     resolve and reject functions was called.                            *)
(* issuer.refs : the values callPipelined returned, in call order.         *)
(* issuer.awaits : the promises awaitResult returned, in call order: the   *)
(*     argument, state "pending" | "fulfilled" | "rejected", the value or  *)
(*     error text, and whether the promise was settled when awaitResult    *)
(*     returned.                                                           *)
InitIssuer ==
    [callsInFlight |-> <<>>,
     nextQuestionId |-> 1,
     ws |-> "null",
     sent |-> <<>>,
     received |-> <<>>,
     rpcs |-> <<>>,
     refs |-> <<>>,
     awaits |-> <<>>]

\* part_000 36: ws = new WebSocket(wsUrl)
initWebSocket(I) == [I EXCEPT !.ws = "CONNECTING"]

NotOpen == "WebSocket not OPEN"

\* callRPC without the increment of nextQuestionId.
callRPCReusesId(I, method, params) ==
    IF I.ws # "OPEN"
    THEN [I EXCEPT !.rpcs = Append(@, [id |-> 0, state |-> "rejected",
                                       value |-> NotOpen, settled |-> 1])]
    ELSE LET questionId == I.nextQuestionId IN
         [I EXCEPT !.callsInFlight = (questionId :> [done |-> FALSE, result |-> Null,
                                                     promise |-> FALSE,
                                                     resolve |-> "rpc", reject |-> "rpc"])
                                     @@ @,
                   !.sent = Append(@, CallFrame(questionId, method, params)),
                   !.rpcs = Append(@, [id |-> questionId, state |-> "pending",
                                       value |-> Null, settled |-> 0])]

\* part_000 80-95
callRPC(I, method, params) ==
    IF I.ws # "OPEN"
    THEN [I EXCEPT !.rpcs = Append(@, [id |-> 0, state |-> "rejected",
                                       value |-> NotOpen, settled |-> 1])]
    ELSE LET questionId == I.nextQuestionId IN
         [I EXCEPT !.nextQuestionId = @ + 1,
                   !.callsInFlight = (questionId :> [done |-> FALSE, result |-> Null,
                                                     promise |-> FALSE,
                                                     resolve |-> "rpc", reject |-> "rpc"])
                                     @@ @,
                   !.sent = Append(@, CallFrame(questionId, method, params)),
                   !.rpcs = Append(@, [id |-> questionId, state |-> "pending",
                                       value |-> Null, settled |-> 0])]

\* callPipelined without the increment of nextQuestionId.
callPipelinedReusesId(I, method, params) ==
    IF I.ws # "OPEN"
    THEN [I EXCEPT !.refs = Append(@, Ref(-1))]
    ELSE LET questionId == I.nextQuestionId IN
         [I EXCEPT !.callsInFlight = (questionId :> [done |-> FALSE, result |-> Null,
                                                     promise |-> FALSE,
                                                     resolve |-> "undefined",
                                                     reject |-> "undefined"])
                                     @@ @,
                   !.sent = Append(@, CallFrame(questionId, method, params)),
                   !.refs = Append(@, Ref(questionId))]

\* part_000 98-112
callPipelined(I, method, params) ==
    IF I.ws # "OPEN"
    THEN [I EXCEPT !.refs = Append(@, Ref(-1))]
    ELSE LET questionId == I.nextQuestionId IN
         [I EXCEPT !.nextQuestionId = @ + 1,
                   !.callsInFlight = (questionId :> [done |-> FALSE, result |-> Null,
                                                     promise |-> FALSE,
                                                     resolve |-> "undefined",
                                                     reject |-> "undefined"])
                                     @@ @,
                   !.sent = Append(@, CallFrame(questionId, method, params)),
                   !.refs = Append(@, Ref(questionId))]

NoCallInFlight(qId) == "No call in flight for #" \o ToString(qId)

Awaited(I, ref, state, value) ==
    [ref |-> ref, state |-> state, value |-> value, atOnce |-> state # "pending"]

\* part_000 115-139
awaitResult(I, ref) ==
    IF ~IsReference(ref)
    THEN [I EXCEPT !.awaits = Append(@, Awaited(I, ref, "rejected", "Not a pipeline reference"))]
    ELSE LET qId == ref.resultOf IN
         IF qId \notin DOMAIN I.callsInFlight
         THEN [I EXCEPT !.awaits = Append(@, Awaited(I, ref, "rejected", NoCallInFlight(qId)))]
         ELSE IF I.callsInFlight[qId].done
         THEN [I EXCEPT !.awaits = Append(@, Awaited(I, ref, "fulfilled",
                                                      I.callsInFlight[qId].result))]
         ELSE [I EXCEPT !.callsInFlight[qId] =
                            IF @.promise THEN @
                            ELSE [@ EXCEPT !.promise = TRUE, !.resolve = "await",
                                           !.reject = "await"],
                        !.awaits = Append(@, Awaited(I, ref, "pending", Null))]

\* SettleRpc settling every pending promise, whatever its id.
SettleRpcAll(rpcs, qId, state, value) ==
    [n \in DOMAIN rpcs |->
        IF rpcs[n].state = "pending"
        THEN [rpcs[n] EXCEPT !.state = state, !.value = value, !.settled = @ + 1]
        ELSE rpcs[n]]

\* A resolve or reject function of the promise callRPC returned for qId is
\* called: a promise is settled by the first such call only.
SettleRpc(rpcs, qId, state, value) ==
    [n \in DOMAIN rpcs |->
        IF rpcs[n].id = qId
        THEN IF rpcs[n].state = "pending"
             THEN [rpcs[n] EXCEPT !.state = state, !.value = value, !.settled = @ + 1]
             ELSE [rpcs[n] EXCEPT !.settled = @ + 1]
        ELSE rpcs[n]]

\* entry.promise of question qId is settled: every awaitResult promise that
\* follows it is settled with it.
SettleAwaits(awaits, qId, state, value) ==
    [n \in DOMAIN awaits |->
        IF IsReference(awaits[n].ref) /\ awaits[n].ref.resultOf = qId
           /\ awaits[n].state = "pending"
        THEN [awaits[n] EXCEPT !.state = state, !.value = value]
        ELSE awaits[n]]

Without(q, id) == [x \in DOMAIN q \ {id} |-> q[x]]

\* part_000 50-76
onmessage(I, msg) ==
    LET I1 == [I EXCEPT !.received = Append(@, msg)] IN
    IF "type" \notin DOMAIN msg THEN I1
    ELSE IF msg.type = "return"
    THEN IF msg.answerId \in DOMAIN I.callsInFlight
         THEN LET entry == I.callsInFlight[msg.answerId] IN
              [I1 EXCEPT !.callsInFlight = Without(@, msg.answerId),
                         !.rpcs = IF entry.resolve = "rpc"
                                  THEN SettleRpc(@, msg.answerId, "fulfilled", msg.result)
                                  ELSE @,
                         !.awaits = IF entry.resolve = "await"
                                    THEN SettleAwaits(@, msg.answerId, "fulfilled", msg.result)
                                    ELSE @]
         ELSE I1
    ELSE IF msg.type = "exception"
    THEN IF msg.answerId \in DOMAIN I.callsInFlight
         THEN LET entry == I.callsInFlight[msg.answerId] IN
              [I1 EXCEPT !.callsInFlight = Without(@, msg.answerId),
                         !.rpcs = IF entry.reject = "rpc"
                                  THEN SettleRpc(@, msg.answerId, "rejected", msg.error)
                                  ELSE @,
                         !.awaits = IF entry.reject = "await"
                                    THEN SettleAwaits(@, msg.answerId, "rejected", msg.error)
                                    ELSE @]
         ELSE I1
    ELSE I1

---------------------------------------------------------------------------
Init ==
    /\ worker = InitWorker
    /\ twin = [conn |-> InitWorker, unsent |-> 0]
    /\ issuer = InitIssuer

Min(a, b) == IF a <= b THEN a ELSE b
Max(a, b) == IF a >= b THEN a ELSE b

Range(seq) == {seq[n] : n \in DOMAIN seq}

\* The parameter positions of a call frame that hold a reference.
RefPositions(f) == {i \in DOMAIN f.params : IsReference(f.params[i])}

RefsIn(f) == IF "params" \in DOMAIN f THEN Cardinality(RefPositions(f)) ELSE 0

RECURSIVE RefsSent(_, _)
RefsSent(tasks, n) ==
    IF n = 0 THEN 0 ELSE RefsIn(tasks[n].frame) + RefsSent(tasks, n - 1)

\* The ids a frame mentions, as a questionId or in a reference.
IdsOf(f) ==
    IF "questionId" \in DOMAIN f
    THEN {f.questionId} \cup {f.params[i].resultOf : i \in RefPositions(f)}
    ELSE {}

RECURSIVE Mentioned(_, _)
Mentioned(tasks, n) ==
    IF n = 0 THEN {} ELSE IdsOf(tasks[n].frame) \cup Mentioned(tasks, n - 1)

\* The ids a frame may mention next when the ids 1..m are in use: one of
\* those, or the next unused one.
NextIds(m) == 1..Min(m + 1, MaxId)

(* The frames a peer may send when the ids 1..m are in use and it may still *)
(* send `budget` references: an undecodable frame, a message that is no     *)
(* call, and calls of the two methods (with the arities their definitions   *)
(* declare) and of a method the worker does not know.                       *)
(* Question ids are opaque keys of the table, so the traffic is taken up to *)
(* a renaming of its ids: the renaming in which ids are first mentioned, as *)
(* a questionId or in a reference, in increasing order.  An id may repeat,  *)
(* and a reference may name an id no call has carried yet.                  *)
Frames(m, budget) ==
    {Undecodable, OtherFrame}
    \cup UNION {
        {CallFrame(id, "makeGreeting", <<Lit("Alice")>>),
         CallFrame(id, "appendSuffix", <<Lit("Bob"), Lit("?")>>),
         CallFrame(id, "shout", <<Lit("Alice")>>)}
        \cup (IF budget >= 1
              THEN {CallFrame(id, "appendSuffix", <<Ref(r), Lit("!!!")>>) :
                       r \in NextIds(Max(m, id))}
                   \cup {CallFrame(id, "shout", <<Ref(r)>>) : r \in NextIds(Max(m, id))}
              ELSE {})
        \cup (IF budget >= 2
              THEN UNION {{CallFrame(id, "appendSuffix", <<Ref(r), Ref(s)>>) :
                              s \in NextIds(Max(Max(m, id), r))} :
                          r \in NextIds(Max(m, id))}
              ELSE {})
        : id \in NextIds(m) }

\* No message event is dispatched on a socket after its close event.
Deliverable(W) ==
    IF Len(W.tasks) < MaxFrames /\ ~W.closed
    THEN Frames(Cardinality(Mentioned(W.tasks, Len(W.tasks))),
                MaxRefs - RefsSent(W.tasks, Len(W.tasks)))
    ELSE {}

Receive(f) ==
    /\ worker' = OnMessage(worker, f)
    /\ UNCHANGED <<twin, issuer>>

TimerFires(k) ==
    /\ k \in DOMAIN worker.tasks
    /\ worker.tasks[k].pc = "running"
    /\ worker' = OnTimer(worker, k)
    /\ UNCHANGED <<twin, issuer>>

Next ==
    \/ \E f \in Deliverable(worker) : Receive(f)
    \/ \E k \in DOMAIN worker.tasks : TimerFires(k)

Spec == Init /\ [][Next]_vars

\* setTimeout callbacks run: a method that was called returns.
FairSpec == Spec /\ \A k \in 1..MaxFrames : WF_vars(TimerFires(k))

(* The connection may close at any moment.  Timers started before the     *)
(* close still fire: nothing in the worker cancels them.                   *)
WorkerCloses ==
    /\ ~worker.closed
    /\ worker' = onclose(worker)
    /\ UNCHANGED <<twin, issuer>>

ClosingNext ==
    \/ \E f \in Deliverable(worker) : Receive(f)
    \/ \E k \in DOMAIN worker.tasks : TimerFires(k)
    \/ WorkerCloses

ClosingSpec == Init /\ [][ClosingNext]_vars

---------------------------------------------------------------------------
(* Two connections side by side.  Connections share no state (the table is *)
(* created per connection, worker.js 13), so the twin runs the same code:   *)
(* it is sent the frames the worker is sent, in the same order, except for  *)
(* at most one call that fails on a reference to an unknown question, and   *)
(* its timers fire when the worker's do.  twin.unsent is the position of    *)
(* the call that was left out (0: none); a placeholder keeps the positions  *)
(* of the later tasks aligned.                                              *)

\* The call frame f fails in W on a reference to an unregistered question.
FailsOnUnknownReference(W, f) ==
    /\ "questionId" \in DOMAIN f
    /\ \E i \in RefPositions(f) :
          f.params[i].resultOf \notin DOMAIN Register(W.questionsInFlight, f.questionId)

Unsent(conn, f) ==
    [conn EXCEPT !.tasks = Append(@, [frame |-> f, pc |-> "unsent", slots |-> <<>>])]

TwinReceive(f) ==
    /\ worker' = OnMessage(worker, f)
    /\ twin' = [twin EXCEPT !.conn = OnMessage(@, f)]
    /\ UNCHANGED issuer

TwinReceiveLeftOut(f) ==
    /\ twin.unsent = 0
    /\ FailsOnUnknownReference(worker, f)
    /\ worker' = OnMessage(worker, f)
    /\ twin' = [conn |-> Unsent(twin.conn, f), unsent |-> Len(worker.tasks) + 1]
    /\ UNCHANGED issuer

TwinTimerFires(k) ==
    /\ k \in DOMAIN worker.tasks
    /\ worker.tasks[k].pc = "running"
    /\ worker' = OnTimer(worker, k)
    /\ twin' = IF twin.conn.tasks[k].pc = "running"
               THEN [twin EXCEPT !.conn = OnTimer(@, k)]
               ELSE twin
    /\ UNCHANGED issuer

TwinNext ==
    \/ \E f \in Deliverable(worker) : TwinReceive(f)
    \/ \E f \in Deliverable(worker) : TwinReceiveLeftOut(f)
    \/ \E k \in DOMAIN worker.tasks : TwinTimerFires(k)

TwinSpec == Init /\ [][TwinNext]_vars

---------------------------------------------------------------------------
(* The page against an arbitrary user and an arbitrary peer.               *)

CallsMade(I) == Len(I.rpcs) + Len(I.refs)

\* The calls the page's user makes: the first of the demo, and the second
\* on a reference callPipelined returned.
CallArgs(I) ==
    {<<"makeGreeting", <<Lit("Alice")>> >>}
    \cup {<<"appendSuffix", <<I.refs[n], Lit("!!!")>> >> : n \in DOMAIN I.refs}

\* What the peer may send: a Return or an Exception for the id of any call
\* sent so far (answered or not), a frame that is no JSON and a message of
\* another type.
Answers(I) ==
    {Undecodable, OtherFrame}
    \cup UNION {{Return(id, "Hello, Alice!"), Exception(id, "boom")} :
                   id \in 1..(I.nextQuestionId - 1)}

Connect ==
    /\ issuer.ws = "null"
    /\ issuer' = initWebSocket(issuer)
    /\ UNCHANGED <<worker, twin>>

Open ==
    /\ issuer.ws = "CONNECTING"
    /\ issuer' = [issuer EXCEPT !.ws = "OPEN"]
    /\ UNCHANGED <<worker, twin>>

Close ==
    /\ issuer.ws \in {"CONNECTING", "OPEN"}
    /\ issuer' = [issuer EXCEPT !.ws = "CLOSED"]
    /\ UNCHANGED <<worker, twin>>

CallRPC(method, params) ==
    /\ CallsMade(issuer) < MaxCalls
    /\ issuer' = callRPC(issuer, method, params)
    /\ UNCHANGED <<worker, twin>>

CallPipelined(method, params) ==
    /\ CallsMade(issuer) < MaxCalls
    /\ issuer' = callPipelined(issuer, method, params)
    /\ UNCHANGED <<worker, twin>>

AwaitResult(ref) ==
    /\ Len(issuer.awaits) < MaxAwaits
    /\ issuer' = awaitResult(issuer, ref)
    /\ UNCHANGED <<worker, twin>>

OnAnswer(msg) ==
    /\ issuer.ws = "OPEN"
    /\ Len(issuer.received) < MaxAnswers
    /\ issuer' = onmessage(issuer, msg)
    /\ UNCHANGED <<worker, twin>>

IssuerNext ==
    \/ Connect
    \/ Open
    \/ Close
    \/ \E a \in CallArgs(issuer) : CallRPC(a[1], a[2])
    \/ \E a \in CallArgs(issuer) : CallPipelined(a[1], a[2])
    \/ \E ref \in Range(issuer.refs) \cup {Lit("Hello, Alice!")} : AwaitResult(ref)
    \/ \E msg \in Answers(issuer) : OnAnswer(msg)

IssuerSpec == Init /\ [][IssuerNext]_vars

---------------------------------------------------------------------------
(* Observations on the worker.                                             *)

\* The positions in out of the frames task k sent.
SentBy(W, k) == {n \in DOMAIN W.out : W.outBy[n] = k}

IsCall(W, k) == k \in Calls(W)

\* Task k is a call of a known method with literal parameters only.
Plain(W, k) ==
    /\ IsCall(W, k)
    /\ W.tasks[k].frame.method \in KnownMethods
    /\ RefsIn(W.tasks[k].frame) = 0

\* What the method of a plain call returns on the call's own parameters.
OwnResult(f) == RunMethod(f.method, [i \in DOMAIN f.params |-> f.params[i].lit])

\* Task k sent exactly one frame, and it is msg.
AnsweredWith(W, k, msg) ==
    /\ Cardinality(SentBy(W, k)) = 1
    /\ \A n \in SentBy(W, k) : W.out[n] = msg

\* A plain call is in its method, with nothing sent yet, or has sent its one
\* Return, with its own id and its own result.
PlainCallOnCourse(W, k) ==
    LET f == W.tasks[k].frame IN
    \/ W.tasks[k].pc = "running" /\ SentBy(W, k) = {}
    \/ W.tasks[k].pc = "returned"
       /\ AnsweredWith(W, k, Return(f.questionId, OwnResult(f)))

---------------------------------------------------------------------------
(* C1 *)

\* All calls so far are plain and carry pairwise distinct question ids.
IndependentCalls(W) ==
    /\ \A k \in Calls(W) : Plain(W, k)
    /\ \A j, k \in Calls(W) :
          j # k => W.tasks[j].frame.questionId # W.tasks[k].frame.questionId

ReturnsOnWire(W) == {n \in DOMAIN W.out : W.out[n].type = "return"}

C1_Safety ==
    IndependentCalls(worker) =>
        /\ \A k \in Calls(worker) : PlainCallOnCourse(worker, k)
        /\ \A n \in ReturnsOnWire(worker) :
              \E k \in Calls(worker) :
                 /\ worker.out[n].answerId = worker.tasks[k].frame.questionId
                 /\ worker.out[n].result = OwnResult(worker.tasks[k].frame)
        /\ \A n1, n2 \in ReturnsOnWire(worker) :
              worker.out[n1].answerId = worker.out[n2].answerId => n1 = n2
        /\ Cardinality(ReturnsOnWire(worker)) <= Cardinality(Calls(worker))
        /\ (\A k \in Calls(worker) : worker.tasks[k].pc # "running")
              => Cardinality(ReturnsOnWire(worker)) = Cardinality(Calls(worker))

\* C1: n independent calls (distinct question ids, literal parameters, known
\* methods) get exactly n Returns, one per question id, each with the result
\* of the call's own method on its own parameters, in whatever order the
\* methods complete; and every such call is eventually answered.
C1_IndependentCallsAnswered ==
    /\ []C1_Safety
    /\ \A k \in 1..MaxFrames :
          (IsCall(worker, k) /\ IndependentCalls(worker))
             ~> (IndependentCalls(worker) =>
                    IsCall(worker, k) /\ worker.tasks[k].pc = "returned")

\* Three independent calls have all been answered, and not in arrival order.
C1_Witness ==
    /\ IndependentCalls(worker)
    /\ Cardinality(Calls(worker)) = 3
    /\ Cardinality(ReturnsOnWire(worker)) = 3
    /\ worker.outBy # <<1, 2, 3>>
    /\ \E j, k \in Calls(worker) :
          worker.tasks[j].frame.method # worker.tasks[k].frame.method

---------------------------------------------------------------------------
(* C2 *)

\* The parameter positions of task k whose maybeResolveParam is suspended.
Suspended(W, k) == {i \in DOMAIN W.tasks[k].slots : W.tasks[k].slots[i].st = "pending"}

\* While a reference of B waits for question A, A is not finalized, B's method
\* has not been called and B has sent no Return.
C2_NotBeforeFinalized ==
    \A k \in Calls(worker) : \A i \in Suspended(worker, k) :
        LET a == worker.tasks[k].frame.params[i].resultOf IN
        /\ ~worker.questionsInFlight[a].done
        /\ k \notin Range(worker.invoked)
        /\ \A n \in SentBy(worker, k) : worker.out[n].type # "return"

\* A call that returned was given, at each reference, the result of a Return
\* sent earlier for the referenced question, and its own Return carries its
\* method's result on those arguments.
C2_ReturnOnSubstitutedValue ==
    \A k \in Calls(worker) :
        LET t == worker.tasks[k] IN
        t.pc = "returned" =>
            /\ AnsweredWith(worker, k,
                   Return(t.frame.questionId,
                          RunMethod(t.frame.method, ResolvedArgs(t.slots))))
            /\ \A i \in RefPositions(t.frame) : \A m \in SentBy(worker, k) :
                  \E n \in 1..(m - 1) :
                     worker.out[n] = Return(t.frame.params[i].resultOf, t.slots[i].val)

\* The step W -> V that finalizes question A with value v sends Return(A, v),
\* hands v to every reference waiting for A, and calls the method of every
\* waiting call that has nothing else to wait for.
C2_FinalizeWakes(W, V) ==
    \A k \in Calls(W) : \A i \in Suspended(W, k) :
        LET a == W.tasks[k].frame.params[i].resultOf
            v == V.questionsInFlight[a].result
        IN V.questionsInFlight[a].done =>
            /\ \E n \in DOMAIN V.out \ DOMAIN W.out : V.out[n] = Return(a, v)
            /\ V.tasks[k].slots[i] = Resolved(v, "promise")
            /\ ( /\ W.tasks[k].pc = "awaiting"
                 /\ W.tasks[k].frame.method \in KnownMethods
                 /\ \A j \in Suspended(W, k) : W.tasks[k].frame.params[j].resultOf = a )
               => /\ V.tasks[k].pc = "running"
                  /\ k \in Range(V.invoked)

Call1 == CallFrame(1, "makeGreeting", <<Lit("Alice")>>)
Call2 == CallFrame(2, "appendSuffix", <<Ref(1), Lit("!!!")>>)

\* Call#1 makeGreeting("Alice") then Call#2 appendSuffix({resultOf: 1}, "!!!"),
\* and no other call under their question ids.
PipelinedPairSent(W) ==
    /\ Len(W.tasks) >= 2
    /\ W.tasks[1].frame = Call1
    /\ W.tasks[2].frame = Call2
    /\ \A k \in Calls(W) : k > 2 => W.tasks[k].frame.questionId \notin {1, 2}

PipelinedPairAnswered(W) ==
    /\ PipelinedPairSent(W)
    /\ AnsweredWith(W, 1, Return(1, "Hello, Alice!"))
    /\ AnsweredWith(W, 2, Return(2, "Hello, Alice!!!!"))

\* C2 as claimed, the example: Call#1 makeGreeting("Alice") and Call#2
\* appendSuffix({resultOf: 1}, "!!!") yield Return#2 "Hello, Alice!!!".
C2_ExampleAsClaimed ==
    (PipelinedPairSent(worker) /\ worker.tasks[2].pc = "returned")
        => AnsweredWith(worker, 2, Return(2, "Hello, Alice!!!"))

\* What the worker does on a pending reference: a call B with a reference to a
\* question A that is still pending does not reach its method before A is
\* finalized; the step that finalizes A with v gives v to B at that parameter
\* and calls B's method, and B's Return is the method's result on v.  Call#1
\* makeGreeting("Alice") followed by Call#2 appendSuffix({resultOf: 1}, "!!!")
\* yields Return#1 "Hello, Alice!" and Return#2 "Hello, Alice!!!!": the
\* greeting ends in "!" and appendSuffix adds three more.
C2_PendingReferenceWaits ==
    /\ [](C2_NotBeforeFinalized /\ C2_ReturnOnSubstitutedValue)
    /\ [][C2_FinalizeWakes(worker, worker')]_vars
    /\ [](PipelinedPairSent(worker) /\ worker.tasks[2].pc = "returned"
            => PipelinedPairAnswered(worker))
    /\ (PipelinedPairSent(worker)
          ~> (PipelinedPairAnswered(worker) \/ ~PipelinedPairSent(worker)))

\* Call#2 arrived while question 1 was pending, waited, and both are answered.
C2_Witness ==
    /\ PipelinedPairAnswered(worker)
    /\ worker.tasks[2].slots[1].via = "promise"
    /\ worker.outBy = <<1, 2>>

---------------------------------------------------------------------------
(* C3 *)

\* The step W -> V is the arrival of a call frame; the new task is Len(V.tasks).
CallArrives(W, V) ==
    /\ Len(V.tasks) = Len(W.tasks) + 1
    /\ IsCall(V, Len(V.tasks))

\* The questions with a waiter registered for parameter i of task k.
WaitedFor(W, k, i) ==
    {id \in DOMAIN W.questionsInFlight :
        <<k, i>> \in Range(W.questionsInFlight[id].waiters)}

\* A call arrives with a reference to a question that is done: the parameter
\* gets the stored result in that step, the entry of the question is left as
\* it was, and a call all of whose references are to done questions reaches
\* the dispatcher in the same step.
C3_ResolvesAtOnce(W, V) ==
    CallArrives(W, V) =>
        LET k == Len(V.tasks)
            f == V.tasks[k].frame
            IsDone(i) == /\ f.params[i].resultOf \in DOMAIN W.questionsInFlight
                         /\ W.questionsInFlight[f.params[i].resultOf].done
        IN /\ \A i \in RefPositions(f) : IsDone(i) =>
                 LET a == f.params[i].resultOf IN
                 /\ V.tasks[k].slots[i] = Resolved(W.questionsInFlight[a].result, "done")
                 /\ V.questionsInFlight[a] = W.questionsInFlight[a]
           /\ (\A i \in RefPositions(f) : IsDone(i)) =>
                 IF f.method \in KnownMethods
                 THEN V.tasks[k].pc = "running" /\ V.invoked = Append(W.invoked, k)
                 ELSE V.tasks[k].pc = "failed"

\* A parameter resolved from a done question never has a waiter anywhere.
C3_NoWaiter ==
    \A k \in Calls(worker) : \A i \in DOMAIN worker.tasks[k].slots :
        (worker.tasks[k].slots[i].st = "resolved" /\ worker.tasks[k].slots[i].via = "done")
            => WaitedFor(worker, k, i) = {}

\* C3: a reference to a question that is already done resolves to the stored
\* value immediately: no promise or waiter is created on the entry, and the
\* call's way to the dispatcher depends on no later event about the question.
C3_DoneReferenceImmediate ==
    /\ []C3_NoWaiter
    /\ [][C3_ResolvesAtOnce(worker, worker')]_vars

\* A call referencing a done question, whose entry never had a promise, has
\* reached its method.
C3_Witness ==
    \E k \in Calls(worker) : \E i \in RefPositions(worker.tasks[k].frame) :
        /\ worker.tasks[k].slots[i].st = "resolved"
        /\ worker.tasks[k].slots[i].via = "done"
        /\ ~worker.questionsInFlight[worker.tasks[k].frame.params[i].resultOf].promise
        /\ worker.tasks[k].pc \in {"running", "returned"}

---------------------------------------------------------------------------
(* C4 *)

RefsOf(W, k) ==
    {W.tasks[k].frame.params[i].resultOf : i \in RefPositions(W.tasks[k].frame)}

\* The question ids reached from ids by following references backwards n
\* times: ids, the ids of the calls that reference one of them, and so on.
RECURSIVE ReachedFrom(_, _, _)
ReachedFrom(W, ids, n) ==
    IF n = 0 THEN ids
    ELSE ReachedFrom(W,
            ids \cup {W.tasks[k].frame.questionId :
                         k \in {j \in Calls(W) : RefsOf(W, j) \cap ids # {}}},
            n - 1)

\* The calls that reference the question id of call d, directly or through a
\* chain of references.
DependentsOf(W, d) ==
    {k \in Calls(W) :
        RefsOf(W, k) \cap ReachedFrom(W, {W.tasks[d].frame.questionId}, Len(W.tasks)) # {}}

AnswersOf(W, k) == {W.out[n] : n \in SentBy(W, k)}

\* Call k stands the same, with the same frames sent, on both connections.
SameOnTwin(k) ==
    /\ worker.tasks[k].pc = twin.conn.tasks[k].pc
    /\ AnswersOf(worker, k) = AnswersOf(twin.conn, k)
    /\ Cardinality(SentBy(worker, k)) = Cardinality(SentBy(twin.conn, k))

\* A call with a reference to an unregistered question has sent exactly one
\* frame: the Exception with its own question id that names the first such
\* reference.
C4_OnlyThatCallFails ==
    \A k \in Calls(worker) :
        LET t == worker.tasks[k] IN
        (\E i \in DOMAIN t.slots : t.slots[i].st = "rejected") =>
            LET i == FirstRejected(t.slots) IN
            /\ t.pc = "failed"
            /\ AnsweredWith(worker, k,
                   Exception(t.frame.questionId, UnknownCall(t.frame.params[i].resultOf)))

---------------------------------------------------------------------------
(* C5 *)

Undecoded(W) == {k \in DOMAIN W.tasks : W.tasks[k].pc = "invalid"}

InvalidJson == Exception(0, "Invalid JSON")

\* The arrival of an undecodable frame appends one Exception{0, "Invalid
\* JSON"} to the wire and changes neither the table nor any call.
C5_UndecodableStep(W, V) ==
    (Len(V.tasks) = Len(W.tasks) + 1 /\ V.tasks[Len(V.tasks)].pc = "invalid") =>
        /\ V.out = Append(W.out, InvalidJson)
        /\ V.questionsInFlight = W.questionsInFlight
        /\ SubSeq(V.tasks, 1, Len(W.tasks)) = W.tasks
        /\ V.invoked = W.invoked

\* Each undecodable frame has exactly one answer, the Exception for id 0, and
\* nothing else on the wire carries answerId 0.
C5_OneException ==
    /\ \A k \in Undecoded(worker) : AnsweredWith(worker, k, InvalidJson)
    /\ Cardinality({n \in DOMAIN worker.out : worker.out[n].answerId = 0})
          = Cardinality(Undecoded(worker))

\* A plain call that arrives after an undecodable frame is in its method or
\* has its one Return.
C5_LaterCallServed ==
    \A k \in DOMAIN worker.tasks :
        (Plain(worker, k) /\ \E j \in Undecoded(worker) : j < k)
            => PlainCallOnCourse(worker, k)

\* C5: an undecodable frame yields exactly one Exception with answerId 0 and
\* error "Invalid JSON", changes no entry of the question table, and a
\* well-formed call received afterwards still gets its normal Return.
C5_UndecodableFrame ==
    /\ [](C5_OneException /\ C5_LaterCallServed)
    /\ [][C5_UndecodableStep(worker, worker')]_vars

\* An undecodable frame arrived after other traffic, got its Exception, and
\* a call that came after it has returned.
C5_Witness ==
    \E j \in Undecoded(worker) : \E k \in DOMAIN worker.tasks :
        /\ j > 1 /\ j < k
        /\ Plain(worker, k)
        /\ worker.tasks[k].pc = "returned"
        /\ AnsweredWith(worker, j, InvalidJson)

---------------------------------------------------------------------------
(* C6 *)

\* C6 as claimed: once a question's entry is done and holds a value, no later
\* step replaces that value.
C6_ValueNeverReplaced ==
    [][\A id \in DOMAIN worker.questionsInFlight :
          worker.questionsInFlight[id].done =>
              worker'.questionsInFlight[id].result = worker.questionsInFlight[id].result]_vars

---------------------------------------------------------------------------
(* C7 *)

Last(seq) == seq[Len(seq)]

\* The step is one callPipelined on an open socket.
PipelinedCallStep(I, J) ==
    /\ I.ws = "OPEN"
    /\ Len(J.refs) = Len(I.refs) + 1

\* The id is fresh: no entry of the table and no frame sent so far has it.
FreshId(I, id) ==
    /\ id \notin DOMAIN I.callsInFlight
    /\ \A n \in DOMAIN I.sent : I.sent[n].questionId # id

C7_OneSynchronousStep(I, J) ==
    PipelinedCallStep(I, J) =>
        LET id == Last(J.refs).resultOf IN
        /\ FreshId(I, id)
        /\ DOMAIN J.callsInFlight = DOMAIN I.callsInFlight \cup {id}
        /\ \A x \in DOMAIN I.callsInFlight : J.callsInFlight[x] = I.callsInFlight[x]
        /\ ~J.callsInFlight[id].done
        /\ Len(J.sent) = Len(I.sent) + 1
        /\ SubSeq(J.sent, 1, Len(I.sent)) = I.sent
        /\ Last(J.sent).type = "call"
        /\ Last(J.sent).questionId = id
        /\ J.received = I.received
        /\ J.rpcs = I.rpcs /\ J.awaits = I.awaits
        /\ J.ws = I.ws

\* C7: callPipelined on an open socket, in one step and with no frame
\* received in it, takes an id no entry and no sent frame has, adds a not-done
\* entry under that id and leaves the other entries alone, sends one Call frame
\* with that id as the last frame sent, and returns {resultOf: id}.  (That a
\* second callPipelined on the first's reference can be sent before any answer
\* is the state C7_Witness.)
C7_PipelinedCallIsSynchronous ==
    [][C7_OneSynchronousStep(issuer, issuer')]_vars

\* Two pipelined calls are sent, the second on the reference the first
\* returned, and the page has received nothing.
C7_Witness ==
    /\ issuer.refs = <<Ref(1), Ref(2)>>
    /\ issuer.sent = <<CallFrame(1, "makeGreeting", <<Lit("Alice")>>),
                       CallFrame(2, "appendSuffix", <<Ref(1), Lit("!!!")>>)>>
    /\ issuer.received = <<>>
    /\ DOMAIN issuer.callsInFlight = {1, 2}

---------------------------------------------------------------------------
(* C8 *)

IsAnswer(msg) == "answerId" \in DOMAIN msg

\* The positions in the frames received of the answers to question id.
AnswersTo(I, id) ==
    {n \in DOMAIN I.received : IsAnswer(I.received[n]) /\ I.received[n].answerId = id}

FirstAnswerTo(I, id) ==
    I.received[CHOOSE n \in AnswersTo(I, id) : \A m \in AnswersTo(I, id) : n <= m]

\* The step is one awaitResult on a reference callPipelined returned for a
\* call it sent.
AwaitStep(I, J) ==
    /\ Len(J.awaits) = Len(I.awaits) + 1
    /\ Last(J.awaits).ref \in Range(I.refs)
    /\ Last(J.awaits).ref.resultOf >= 1

\* C8 as claimed, first half: awaitResult on a reference whose Return has
\* already arrived returns that Return's result without suspending.
C8_ArrivedReturnIsReturned ==
    [][AwaitStep(issuer, issuer') =>
          LET id == Last(issuer'.awaits).ref.resultOf IN
          (AnswersTo(issuer, id) # {} /\ FirstAnswerTo(issuer, id).type = "return") =>
              /\ Last(issuer'.awaits).state = "fulfilled"
              /\ Last(issuer'.awaits).value = FirstAnswerTo(issuer, id).result
              /\ Last(issuer'.awaits).atOnce]_vars

---------------------------------------------------------------------------
(* C9 *)

\* What an answer settles a promise to.
Outcome(msg) ==
    IF msg.type = "return"
    THEN [state |-> "fulfilled", value |-> msg.result]
    ELSE [state |-> "rejected", value |-> msg.error]

\* The step is the receipt of one frame.
AnswerStep(I, J) == Len(J.received) = Len(I.received) + 1

\* The frame received is a Return or an Exception for a live entry.
Matches(I, msg) ==
    /\ IsAnswer(msg)
    /\ msg.answerId \in DOMAIN I.callsInFlight

\* The awaitResult promises that wait on question id.
WaitingOn(I, id) ==
    {n \in DOMAIN I.awaits : I.awaits[n].state = "pending" /\ I.awaits[n].ref = Ref(id)}

\* A matching answer removes the entry, settles the callRPC promise of that id
\* and every awaitResult promise waiting on it to the answer's outcome, and
\* changes no other promise; a frame that matches no entry changes nothing.
C9_AnswerSettlesItsEntry(I, J) ==
    AnswerStep(I, J) =>
        LET msg == Last(J.received) IN
        /\ DOMAIN J.rpcs = DOMAIN I.rpcs /\ DOMAIN J.awaits = DOMAIN I.awaits
        /\ IF Matches(I, msg)
           THEN /\ J.callsInFlight = Without(I.callsInFlight, msg.answerId)
                /\ \A n \in DOMAIN I.rpcs :
                      IF I.rpcs[n].id = msg.answerId
                      THEN /\ I.rpcs[n].state = "pending"
                           /\ J.rpcs[n].state = Outcome(msg).state
                           /\ J.rpcs[n].value = Outcome(msg).value
                      ELSE J.rpcs[n] = I.rpcs[n]
                /\ \A n \in DOMAIN I.awaits :
                      IF n \in WaitingOn(I, msg.answerId)
                      THEN /\ J.awaits[n].state = Outcome(msg).state
                           /\ J.awaits[n].value = Outcome(msg).value
                      ELSE J.awaits[n] = I.awaits[n]
           ELSE /\ J.callsInFlight = I.callsInFlight
                /\ J.rpcs = I.rpcs
                /\ J.awaits = I.awaits

\* A promise callRPC returned changes in no step but the receipt of an answer
\* with its id.
C9_OnlyItsAnswerSettles(I, J) ==
    \A n \in DOMAIN I.rpcs :
        J.rpcs[n] # I.rpcs[n] =>
            /\ AnswerStep(I, J)
            /\ IsAnswer(Last(J.received))
            /\ Last(J.received).answerId = I.rpcs[n].id

\* The promise of a call that was sent is pending until the first answer with
\* its id is received and from then on stands as that answer settled it; its
\* resolve and reject functions are called once between them.
C9_SettledOnceByFirstAnswer ==
    \A n \in DOMAIN issuer.rpcs :
        LET rpc == issuer.rpcs[n] IN
        rpc.id # 0 =>
            IF AnswersTo(issuer, rpc.id) = {}
            THEN rpc.state = "pending" /\ rpc.settled = 0
            ELSE /\ rpc.state = Outcome(FirstAnswerTo(issuer, rpc.id)).state
                 /\ rpc.value = Outcome(FirstAnswerTo(issuer, rpc.id)).value
                 /\ rpc.settled = 1

\* C9: a Return or Exception whose answerId has a live entry settles the entry
\* and every awaitResult promise waiting on it; the promise callRPC returned is
\* settled once, fulfilled with the result or rejected with the error text, by
\* the first answer with the id the call was sent with and by no other frame,
\* in whatever order the answers arrive.
C9_AnswersSettleMatchingEntry ==
    /\ []C9_SettledOnceByFirstAnswer
    /\ [][/\ C9_AnswerSettlesItsEntry(issuer, issuer')
          /\ C9_OnlyItsAnswerSettles(issuer, issuer')]_vars

\* Call 1 went out by callRPC and call 2 by callPipelined with an awaitResult
\* on it; the answers came in the other order, and a second answer to call 1
\* after them: the awaitResult promise is rejected with the error of the
\* Exception and the callRPC promise is fulfilled with the first Return.
C9_Witness ==
    /\ Len(issuer.rpcs) = 1 /\ issuer.rpcs[1].id = 1
    /\ issuer.rpcs[1].state = "fulfilled" /\ issuer.rpcs[1].value = "Hello, Alice!"
    /\ issuer.refs = <<Ref(2)>>
    /\ Len(issuer.awaits) >= 1
    /\ issuer.awaits[1] = [ref |-> Ref(2), state |-> "rejected", value |-> "boom",
                           atOnce |-> FALSE]
    /\ issuer.received = <<Exception(2, "boom"), Return(1, "Hello, Alice!")>>

---------------------------------------------------------------------------
(* C10 *)

\* Why call k fails, if it does: the message of the Exception it must send.
\* A rejected parameter wins over an unknown method; <<>> if the call is fine.
Failure(W, k) ==
    LET t == W.tasks[k] IN
    IF \E i \in DOMAIN t.slots : t.slots[i].st = "rejected"
    THEN <<t.slots[FirstRejected(t.slots)].err>>
    ELSE IF t.frame.method \notin KnownMethods /\ AllResolved(t.slots)
    THEN <<UnknownMethod(t.frame.method)>>
    ELSE <<>>

\* A call that fails has sent exactly one frame, the Exception with its own
\* question id, and is finished; a call that does not fail sends no Exception.
C10_FailureIsOneException ==
    \A k \in Calls(worker) :
        LET e == Failure(worker, k)
            qId == worker.tasks[k].frame.questionId
        IN IF e # <<>>
           THEN /\ worker.tasks[k].pc = "failed"
                /\ AnsweredWith(worker, k, Exception(qId, e[1]))
           ELSE /\ worker.tasks[k].pc # "failed"
                /\ \A n \in SentBy(worker, k) : worker.out[n].type = "return"

FailedCalls(W) == {k \in Calls(W) : W.tasks[k].pc = "failed"}

\* A plain call that arrives after a failed call is in its method or has its
\* one Return.
C10_LaterCallServed ==
    \A k \in DOMAIN worker.tasks :
        (Plain(worker, k) /\ \E j \in FailedCalls(worker) : j < k)
            => PlainCallOnCourse(worker, k)

\* Whatever failed before, an arriving call is registered and started.
C10_LoopGoesOn(W, V) ==
    CallArrives(W, V) =>
        LET k == Len(V.tasks) IN
        /\ V.tasks[k].frame.questionId \in DOMAIN V.questionsInFlight
        /\ SentBy(V, k) \subseteq (DOMAIN V.out \ DOMAIN W.out)
        /\ \A j \in FailedCalls(W) : V.tasks[j].pc = "failed" /\ SentBy(V, j) = SentBy(W, j)

---------------------------------------------------------------------------
(* C11 *)

QuestionId(W, k) == W.tasks[k].frame.questionId

\* The calls other than j with a parameter that references the id of call j.
ReferencesTo(W, j) ==
    {k \in Calls(W) \ {j} : QuestionId(W, j) \in RefsOf(W, k)}

NoneReturnedUnder(W, j) ==
    \A i \in Calls(W) :
        QuestionId(W, i) = QuestionId(W, j) => W.tasks[i].pc # "returned"

---------------------------------------------------------------------------
(* C12 *)

\* C12 as claimed, the worker's side: once the connection has closed, no
\* parameter of any call is still suspended on a question.
C12_NoWaiterLeftAfterClose ==
    worker.closed => \A k \in Calls(worker) : Suspended(worker, k) = {}

\* The issuer's side of the same statement: once the socket has closed, no
\* promise callRPC returned and no promise awaitResult returned is pending.
C12_IssuerNothingPendingAfterClose ==
    issuer.ws = "CLOSED" =>
        /\ \A n \in DOMAIN issuer.rpcs : issuer.rpcs[n].state # "pending"
        /\ \A n \in DOMAIN issuer.awaits : issuer.awaits[n].state # "pending"

---------------------------------------------------------------------------
(* C13 *)

\* The positions in the frames sent of the calls with question id `id`.
SentUnder(I, id) == {n \in DOMAIN I.sent : I.sent[n].questionId = id}

\* C13: the question ids of the Call frames the page sent, by callRPC and by
\* callPipelined in any interleaving, are positive integers and strictly
\* increasing in send order, hence pairwise distinct; the id the next call
\* will take is above all of them; and every entry of callsInFlight stands for
\* exactly one call sent.
C13_IdsIncreaseNeverReused ==
    /\ \A n \in DOMAIN issuer.sent :
          /\ issuer.sent[n].questionId \in Nat
          /\ issuer.sent[n].questionId >= 1
          /\ issuer.sent[n].questionId < issuer.nextQuestionId
    /\ \A m, n \in DOMAIN issuer.sent :
          m < n => issuer.sent[m].questionId < issuer.sent[n].questionId
    /\ \A id \in DOMAIN issuer.callsInFlight : Cardinality(SentUnder(issuer, id)) = 1
    /\ \A n \in DOMAIN issuer.rpcs :
          issuer.rpcs[n].id # 0 => Cardinality(SentUnder(issuer, issuer.rpcs[n].id)) = 1
    /\ \A n \in DOMAIN issuer.refs :
          issuer.refs[n].resultOf # -1 =>
              Cardinality(SentUnder(issuer, issuer.refs[n].resultOf)) = 1

\* A callPipelined and then a callRPC were sent, with ids 1 and 2, and both
\* are in the table.
C13_Witness ==
    /\ Len(issuer.sent) = 2
    /\ issuer.refs = <<Ref(1)>>
    /\ Len(issuer.rpcs) = 1 /\ issuer.rpcs[1].id = 2
    /\ issuer.sent[1].questionId = 1 /\ issuer.sent[2].questionId = 2
    /\ DOMAIN issuer.callsInFlight = {1, 2}

---------------------------------------------------------------------------
(* C14 *)

\* The question ids of the calls that arrived up to and including call k.
SeenBy(W, k) == {QuestionId(W, j) : j \in {i \in Calls(W) : i <= k}}

\* C14: between any two events the table holds exactly the question ids of
\* the calls received so far, finished or not, and a parameter of call B that
\* references the id of a call that arrived before B, or B's own id, is never
\* rejected: a parameter is rejected only with the unknown-call error and only
\* for an id that no call up to B carried.
C14_RegisteredOnArrival ==
    /\ DOMAIN worker.questionsInFlight = SeenBy(worker, Len(worker.tasks))
    /\ \A k \in Calls(worker) : \A i \in RefPositions(worker.tasks[k].frame) :
          LET a == worker.tasks[k].frame.params[i].resultOf IN
          IF a \in SeenBy(worker, k)
          THEN worker.tasks[k].slots[i].st # "rejected"
          ELSE worker.tasks[k].slots[i] = Rejected(UnknownCall(a))

\* Call 2 waits for question 1 and has not started; call 3 arrived with a
\* reference to question 2 and waits for it, while call 1 is in its method.
C14_Witness ==
    /\ Len(worker.tasks) = 3
    /\ worker.tasks[1].pc = "running"
    /\ worker.tasks[2].pc = "awaiting" /\ 2 \notin Range(worker.invoked)
    /\ worker.tasks[3].pc = "awaiting"
    /\ QuestionId(worker, 2) = 2
    /\ worker.tasks[3].frame.params[1] = Ref(2)
    /\ worker.tasks[3].slots[1] = Pending
    /\ worker.out = <<>>

---------------------------------------------------------------------------
(* C15 *)

\* The questions that are registered and not done.
PendingQuestions(W) ==
    {id \in DOMAIN W.questionsInFlight : ~W.questionsInFlight[id].done}

\* A call that arrives, whatever the calls before it are doing, is registered
\* and started in the step of its arrival: its parameters are looked at, a
\* plain call is in its method, and the calls before it are where they were.
C15_ArrivalStartsCall(W, V) ==
    CallArrives(W, V) =>
        LET k == Len(V.tasks) IN
        /\ QuestionId(V, k) \in DOMAIN V.questionsInFlight
        /\ DOMAIN V.tasks[k].slots = DOMAIN V.tasks[k].frame.params
        /\ SubSeq(V.tasks, 1, Len(W.tasks)) = W.tasks
        /\ Plain(V, k) => V.tasks[k].pc = "running" /\ V.invoked = Append(W.invoked, k)

\* C15: the listener takes the next frame while earlier calls are pending: a
\* call is registered and started in the step of its arrival whatever the
\* state of the calls before it, and every plain call eventually returns,
\* also when a call before it is suspended for ever.
C15_LoopDoesNotBlock ==
    /\ [][C15_ArrivalStartsCall(worker, worker')]_vars
    /\ \A k \in 1..MaxFrames :
          (k \in DOMAIN worker.tasks /\ Plain(worker, k))
              ~> (k \in DOMAIN worker.tasks /\ worker.tasks[k].pc = "returned")

\* Call 1 references its own question and is suspended for ever; call 2, a
\* plain call that arrived after it, has returned; call 3 is in its method:
\* questions 1 and 3 are registered and pending at once.
C15_Witness ==
    /\ Len(worker.tasks) = 3
    /\ worker.tasks[1].frame = CallFrame(1, "appendSuffix", <<Ref(1), Lit("!!!")>>)
    /\ worker.tasks[1].pc = "awaiting"
    /\ Plain(worker, 2) /\ QuestionId(worker, 2) = 2 /\ worker.tasks[2].pc = "returned"
    /\ Plain(worker, 3) /\ QuestionId(worker, 3) = 3 /\ worker.tasks[3].pc = "running"
    /\ PendingQuestions(worker) = {1, 3}

---------------------------------------------------------------------------
(* C16 *)

\* The calls with a parameter whose resolution failed.
Aborted(W) ==
    {k \in Calls(W) : \E i \in DOMAIN W.tasks[k].slots : W.tasks[k].slots[i].st = "rejected"}

\* C16: a call with a parameter whose resolution failed is finished as failed,
\* has sent exactly one frame, the Exception with its own question id and the
\* message of the failure (of the first failing parameter when several fail),
\* and its method has not been called; this holds in every state, so also
\* while other parameters of the call are suspended and after they are woken.
C16_ParameterFailureAborts ==
    \A k \in Aborted(worker) :
        LET t == worker.tasks[k] IN
        /\ t.pc = "failed"
        /\ k \notin Range(worker.invoked)
        /\ t.slots[FirstRejected(t.slots)].err
              = UnknownCall(t.frame.params[FirstRejected(t.slots)].resultOf)
        /\ AnsweredWith(worker, k,
               Exception(t.frame.questionId, t.slots[FirstRejected(t.slots)].err))

\* Call 2 arrived with a reference to question 1, then pending, and one to an
\* unregistered question: its Exception went out before the Return of call 1,
\* and the waking of its first parameter afterwards changed nothing for it.
C16_Witness ==
    /\ Len(worker.tasks) >= 2
    /\ 2 \in Aborted(worker)
    /\ worker.tasks[2].slots[1].st = "resolved" /\ worker.tasks[2].slots[1].via = "promise"
    /\ worker.tasks[2].slots[2].st = "rejected"
    /\ worker.tasks[1].pc = "returned"
    /\ worker.outBy = <<2, 1>>

\* Both parameters of a call reference unregistered questions, different ones.
C16_SeveralFail ==
    \E k \in Aborted(worker) :
        /\ \A i \in DOMAIN worker.tasks[k].slots : worker.tasks[k].slots[i].st = "rejected"
        /\ Len(worker.tasks[k].slots) = 2
        /\ worker.tasks[k].slots[1].err # worker.tasks[k].slots[2].err

---------------------------------------------------------------------------
(* C17 *)

IsPrefix(s, t) == Len(s) <= Len(t) /\ SubSeq(t, 1, Len(s)) = s

\* No step removes an entry of the table or makes a done entry not done; the
\* arrival of a call whose question id is already in the table registers
\* nothing (Register returns the table it was given) and leaves done and
\* result of that entry as they were, adding at most waiters to it.
C17_Step(W, V) ==
    /\ DOMAIN W.questionsInFlight \subseteq DOMAIN V.questionsInFlight
    /\ \A id \in DOMAIN W.questionsInFlight :
          W.questionsInFlight[id].done => V.questionsInFlight[id].done
    /\ CallArrives(W, V) =>
          LET id == QuestionId(V, Len(V.tasks)) IN
          id \in DOMAIN W.questionsInFlight =>
              /\ Register(W.questionsInFlight, id) = W.questionsInFlight
              /\ DOMAIN V.questionsInFlight = DOMAIN W.questionsInFlight
              /\ V.questionsInFlight[id].done = W.questionsInFlight[id].done
              /\ V.questionsInFlight[id].result = W.questionsInFlight[id].result
              /\ W.questionsInFlight[id].promise => V.questionsInFlight[id].promise
              /\ IsPrefix(W.questionsInFlight[id].waiters, V.questionsInFlight[id].waiters)

\* C17: an entry of the worker's table is never removed, an entry that is
\* done stays done, and the arrival of a call with an id that is already
\* registered, pending or done, leaves the entry as it is.
C17_EntriesOnlyAdvance ==
    [][C17_Step(worker, worker')]_vars

\* A second call with question id 1 arrived after the first had returned: the
\* entry is done and holds the first call's result.
C17_Witness ==
    /\ Len(worker.tasks) >= 2
    /\ Plain(worker, 1) /\ QuestionId(worker, 1) = 1 /\ worker.tasks[1].pc = "returned"
    /\ IsCall(worker, 2) /\ QuestionId(worker, 2) = 1 /\ worker.tasks[2].pc = "running"
    /\ worker.questionsInFlight[1].done
    /\ worker.questionsInFlight[1].result = OwnResult(worker.tasks[1].frame)
    /\ worker.outBy = <<1>>

---------------------------------------------------------------------------
(* C18 *)

Increasing(seq) == \A m, n \in DOMAIN seq : m < n => seq[m] < seq[n]

\* What a step appended to a sequence that only grows.
Added(old, new) == SubSeq(new, Len(old) + 1, Len(new))

\* The waiters of a question stand in the order of arrival of their calls;
\* each is a parameter that references the question and is suspended, and
\* every suspended parameter is a waiter of the question it references; a
\* done question has no waiter, so no parameter is suspended on it.
C18_WaitersInOrder ==
    /\ \A id \in DOMAIN worker.questionsInFlight :
          LET ws == worker.questionsInFlight[id].waiters IN
          /\ \A m, n \in DOMAIN ws : m < n =>
                \/ ws[m][1] < ws[n][1]
                \/ ws[m][1] = ws[n][1] /\ ws[m][2] < ws[n][2]
          /\ \A n \in DOMAIN ws :
                /\ worker.tasks[ws[n][1]].slots[ws[n][2]] = Pending
                /\ worker.tasks[ws[n][1]].frame.params[ws[n][2]] = Ref(id)
          /\ worker.questionsInFlight[id].done => ws = <<>>
    /\ \A k \in Calls(worker) : \A i \in Suspended(worker, k) :
          <<k, i>> \in Range(worker.questionsInFlight[
                                 worker.tasks[k].frame.params[i].resultOf].waiters)

\* The step that finalizes a pending question with value v gives v to every
\* waiter of the question, leaves it with no waiter, and lets the waiting
\* calls go on in the order of their arrival: the methods called in the step
\* are called in that order, and after the Return of the question the frames
\* sent in the step come in that order.
C18_FinalizeWakesAll(W, V) ==
    \A id \in DOMAIN W.questionsInFlight :
        (~W.questionsInFlight[id].done /\ V.questionsInFlight[id].done) =>
            LET ws == W.questionsInFlight[id].waiters
                v == V.questionsInFlight[id].result
                sent == Added(W.outBy, V.outBy)
            IN /\ V.questionsInFlight[id].waiters = <<>>
               /\ \A n \in DOMAIN ws :
                     V.tasks[ws[n][1]].slots[ws[n][2]] = Resolved(v, "promise")
               /\ \A k \in Calls(V) : \A i \in Suspended(V, k) :
                     V.tasks[k].frame.params[i].resultOf # id
               /\ Increasing(Added(W.invoked, V.invoked))
               /\ Range(Added(W.invoked, V.invoked)) \subseteq {ws[n][1] : n \in DOMAIN ws}
               /\ Len(sent) >= 1
               /\ Added(W.out, V.out)[1] = Return(id, v)
               /\ Increasing(Tail(sent))
               /\ Range(Tail(sent)) \subseteq {ws[n][1] : n \in DOMAIN ws}

\* C18: when a pending question with waiters is finalized with v, every
\* waiter gets v, none stays suspended on the question, and the waiting calls
\* proceed in the order in which they started to wait, which is the order of
\* their arrival.
C18_WaitersWokenInOrder ==
    /\ []C18_WaitersInOrder
    /\ [][C18_FinalizeWakesAll(worker, worker')]_vars

\* Calls 2 and 3 both waited for question 1; when it was finalized both got
\* its value and their methods were called in the order 2, 3.
C18_Witness ==
    /\ Len(worker.tasks) = 3
    /\ Plain(worker, 1) /\ QuestionId(worker, 1) = 1
    /\ IsCall(worker, 2) /\ IsCall(worker, 3)
    /\ worker.tasks[2].frame.params[1] = Ref(1)
    /\ worker.tasks[3].frame.params[1] = Ref(1)
    /\ QuestionId(worker, 2) = 2 /\ QuestionId(worker, 3) = 3
    /\ worker.tasks[2].slots[1] = Resolved(OwnResult(worker.tasks[1].frame), "promise")
    /\ worker.tasks[3].slots[1] = Resolved(OwnResult(worker.tasks[1].frame), "promise")
    /\ worker.invoked = <<1, 2, 3>>

---------------------------------------------------------------------------
(* C19 *)

DistinctIds(W) ==
    \A j, k \in Calls(W) : j # k => QuestionId(W, j) # QuestionId(W, k)

\* The positions on the wire of the Returns for question id.
ReturnsFor(W, id) ==
    {n \in DOMAIN W.out : W.out[n].type = "return" /\ W.out[n].answerId = id}

\* C19: when the calls carry distinct question ids, the Return of a call with
\* a reference to question A comes on the wire strictly after the Return for
\* A, which is there.
C19_DependentReturnsLater ==
    DistinctIds(worker) =>
        \A k \in Calls(worker) : \A i \in RefPositions(worker.tasks[k].frame) :
            \A m \in ReturnsFor(worker, QuestionId(worker, k)) :
                \E n \in ReturnsFor(worker, worker.tasks[k].frame.params[i].resultOf) :
                    n < m

\* Call 2 references question 1 and call 3 is a plain call: the Returns came
\* in the order 1, 3, 2, the dependent one after the one it depends on and
\* after that of a call that arrived later.
C19_Witness ==
    /\ Len(worker.tasks) = 3
    /\ DistinctIds(worker)
    /\ Plain(worker, 1) /\ Plain(worker, 3) /\ IsCall(worker, 2)
    /\ RefsOf(worker, 2) = {QuestionId(worker, 1)}
    /\ worker.outBy = <<1, 3, 2>>
    /\ \A n \in DOMAIN worker.out : worker.out[n].type = "return"

---------------------------------------------------------------------------
(* C20 *)

\* The calls with a parameter that references the call's own question id.
SelfReferencing(W) == {k \in Calls(W) : QuestionId(W, k) \in RefsOf(W, k)}

OwnsId(W, k) == \A j \in Calls(W) \ {k} : QuestionId(W, j) # QuestionId(W, k)

\* Every reference of call k is to its own id or to the id of a call that
\* arrived before it.
RefsKnownOnArrival(W, k) ==
    \A r \in RefsOf(W, k) :
        r = QuestionId(W, k) \/ \E j \in Calls(W) : j < k /\ QuestionId(W, j) = r

====
